---- MODULE Spec2Model ----
(***************************************************************************)
(* A model of the chat backend of ai-study-assistant:                      *)
(*   backend/graphrag_processor.py  the search engine singleton            *)
(*                                  (initialize_rag, query_rag,            *)
(*                                  trigger_ingestion)                     *)
(*   backend/main.py                post_message and its stream_response   *)
(*   backend/storage.py             the topic files                        *)
(*                                                                         *)
(* The program runs on one asyncio event loop.  A coroutine runs until it  *)
(* awaits or yields; every action below is one such run.  initialize_rag   *)
(* is modelled one initialization step per action, with the lock held     *)
(* across them: the steps are blocking reads of the index artifacts, and   *)
(* giving other coroutines a turn between them only adds behaviours.  The  *)
(* two assignments that publish the engine (lines 247 and 257) have no     *)
(* I/O between them and stay in one action.                                *)
(*                                                                         *)
(* Text (a reply, a topic id, a topic name, a message) is a sequence of     *)
(* characters, each character a one-letter string.  Writes to the topic    *)
(* files succeed; a failing os.remove is modelled.                         *)
(***************************************************************************)
EXTENDS Naturals, Sequences, FiniteSets

\* ------------------------------------------------------------------ bounds

\* Longest response text the engine returns.
MaxReplyLen == 2

\* ---------------------------------------------------------- process sets

\* Calls of initialize_rag (each caller calls once).
Callers == {"c1", "c2", "c3"}
\* Background tasks created by POST /api/ingest.
Ingests == {"g1"}
\* Requests to POST /api/topics/{topic_id}/messages.
Streams == {"s1", "s2"}
\* The topic ids the message and topic requests name (ids uuid4 made: a text
\* of letters the file name keeps as it is).
TopicIds == {<<"x">>}

\* Python's None.
None == "None"

\* ------------------------------------------------------------------ texts

Alphabet == {"a", "b"}

RECURSIVE TextsUpTo(_)
\* Every text over Alphabet of length at most n.
TextsUpTo(n) ==
    IF n = 0 THEN {<<>>}
    ELSE LET shorter == TextsUpTo(n - 1)
         IN  shorter \cup {Append(t, ch) : t \in shorter, ch \in Alphabet}

\* What engine.search() can hand back in result.response ("" included).
Responses == TextsUpTo(MaxReplyLen)

\* Exception classes the engine's search can raise.
SearchErrors == {"TimeoutError"}

\* query_rag line 274: the fixed "engine not initialized" reply.
NotReadyMsg == <<"N", "R">>
\* query_rag line 286: the fixed "no clear answer" reply.
NoAnswerMsg == <<"N", "A">>
\* query_rag line 290: the fixed "error querying" reply, ending in type(e).__name__.
QueryFailedMsg(e) == <<"Q", "F", e>>
\* stream_response line 143: the fixed internal-error reply.
StreamErrorMsg == <<"I", "E">>
\* The user's question in the request body.
UserTexts == {<<"q">>}

VARIABLES
    \* graphrag_processor module state
    initialized,      \* _initialized
    search_engine,    \* _search_engine: None, or the call that built the engine
    model_manager,    \* _model_manager: None, or the call that created it
    lock,             \* _lock: None when free, else the call holding it
    \* what initialization reads
    output_files,     \* the five required parquet files are all in OUTPUT_DIR
    lancedb_table,    \* the collection is among the LanceDB tables
    chat_cfg,         \* LLM_MODEL and LLM_API_BASE are both set
    embed_cfg,        \* EMBEDDING_MODEL and EMBEDDING_API_BASE are both set
    \* calls of initialize_rag
    ipc,              \* where each call is
    outcome,          \* how each call ended
    \* ingestion tasks
    gpc,              \* where each task is
    gres,             \* how each task ended
    engine_at_trigger,\* _search_engine as the task found it
    invalidated,      \* the engine objects that existed when an ingestion task reset the state
    \* post_message requests
    spc,              \* where each request is
    stopic,           \* topic_id of the request
    engine_used,      \* the engine object whose search() the query awaits
    reply,            \* full_ai_reply
    search_result,    \* what awaiting search() ended in
    events,           \* what stream_response has yielded so far
    saved,            \* assistant contents this stream wrote to the topic file
    \* storage
    files,            \* CHAT_HISTORY_DIR: file name (without ".json") -> what the file holds
    minted,           \* the ids uuid4 has handed out
    appended,         \* per topic file, the messages add_message_to_topic was given, in call order
    ret               \* the last call of a storage function and what it returned

engineVars == <<initialized, search_engine, model_manager, lock>>
envVars == <<output_files, lancedb_table, chat_cfg, embed_cfg>>
callVars == <<ipc, outcome>>
ingestVars == <<gpc, gres, engine_at_trigger, invalidated>>
streamVars == <<spc, stopic, engine_used, reply, search_result, events, saved>>
storeVars == <<files, minted, appended, ret>>
vars == <<engineVars, envVars, callVars, ingestVars, streamVars, storeVars>>

\* graphrag_processor.py line 34: the module does not load without graphrag
\* (line 79 uses ModelType), so a running program has it.
GRAPHRAG_AVAILABLE == TRUE

\* ------------------------------------------------- initialize_rag (115-268)

CallPcs == {"idle", "acquire", "files", "load", "vector", "chat", "embed", "build", "done"}
\* How a call ends: "skipped" returns at line 119, "rechecked" at line 122,
\* "aborted" at a failed check, "raised" through an except clause, "built"
\* after line 257.
Outcomes == {"pending", "skipped", "rechecked", "aborted", "raised", "built"}

\* Line 117: the check before the lock.
FastPathReturns(flag) == flag \/ ~GRAPHRAG_AVAILABLE

\* Line 121: asyncio.Lock.acquire goes through only when the lock is not held.
LockIsFree_Ignored(l) == TRUE
LockIsFree(l) == l = None

\* Line 122: the check repeated under the lock.
RecheckReturns_Never(flag) == FALSE
RecheckReturns(flag) == flag

\* Lines 127-128: some required file is not in OUTPUT_DIR.
MissingFiles_Ignored(present) == FALSE
MissingFiles(present) == ~present

\* Line 168: the collection is not among db.table_names().
MissingCollection(present) == ~present

\* Lines 185 and 201: model name or API base is not set.
MissingModelConfig(cfg) == ~cfg

\* Lines 262, 265, 268: what the except clauses assign to _initialized.
FlagAfterException_Set == TRUE
FlagAfterException == FALSE

InitReturn_LockKept(c, how) ==
    /\ lock' = lock
    /\ ipc' = [ipc EXCEPT ![c] = "done"]
    /\ outcome' = [outcome EXCEPT ![c] = how]

\* Leaving "async with _lock" by a return at a failed check: the lock is
\* released, _initialized and _search_engine are as they were.
InitReturn(c, how) ==
    /\ lock' = None
    /\ ipc' = [ipc EXCEPT ![c] = "done"]
    /\ outcome' = [outcome EXCEPT ![c] = how]

\* Lines 115-119.
InitCall(c) ==
    /\ ipc[c] = "idle"
    /\ IF FastPathReturns(initialized)
       THEN /\ ipc' = [ipc EXCEPT ![c] = "done"]
            /\ outcome' = [outcome EXCEPT ![c] = "skipped"]
       ELSE /\ ipc' = [ipc EXCEPT ![c] = "acquire"]
            /\ UNCHANGED outcome
    /\ UNCHANGED <<engineVars, envVars, ingestVars, streamVars, storeVars>>

\* Lines 121-122: take the lock, look at _initialized again.
InitAcquire(c) ==
    /\ ipc[c] = "acquire"
    /\ LockIsFree(lock)
    /\ IF RecheckReturns(initialized)
       THEN /\ lock' = None
            /\ ipc' = [ipc EXCEPT ![c] = "done"]
            /\ outcome' = [outcome EXCEPT ![c] = "rechecked"]
       ELSE /\ lock' = c
            /\ ipc' = [ipc EXCEPT ![c] = "files"]
            /\ UNCHANGED outcome
    /\ UNCHANGED <<initialized, search_engine, model_manager>>
    /\ UNCHANGED <<envVars, ingestVars, streamVars, storeVars>>

\* Lines 126-131.
InitCheckFiles(c) ==
    /\ ipc[c] = "files"
    /\ IF MissingFiles(output_files)
       THEN InitReturn(c, "aborted")
       ELSE /\ ipc' = [ipc EXCEPT ![c] = "load"]
            /\ UNCHANGED <<lock, outcome>>
    /\ UNCHANGED <<initialized, search_engine, model_manager>>
    /\ UNCHANGED <<envVars, ingestVars, streamVars, storeVars>>

\* Lines 133-156: read the tables (the optional claims table changes nothing
\* the program keeps).
InitLoad(c) ==
    /\ ipc[c] = "load"
    /\ ipc' = [ipc EXCEPT ![c] = "vector"]
    /\ UNCHANGED <<engineVars, outcome, envVars, ingestVars, streamVars, storeVars>>

\* Lines 158-176: connect to LanceDB and look for the collection; the inner
\* try returns on a failed connection as well.
InitVector(c) ==
    /\ ipc[c] = "vector"
    /\ \E connect_fails \in BOOLEAN :
         IF connect_fails \/ MissingCollection(lancedb_table)
         THEN InitReturn(c, "aborted")
         ELSE /\ ipc' = [ipc EXCEPT ![c] = "chat"]
              /\ UNCHANGED <<lock, outcome>>
    /\ UNCHANGED <<initialized, search_engine, model_manager>>
    /\ UNCHANGED <<envVars, ingestVars, streamVars, storeVars>>

\* Lines 178-195.
InitChat(c) ==
    /\ ipc[c] = "chat"
    /\ model_manager' = c
    /\ IF MissingModelConfig(chat_cfg)
       THEN InitReturn(c, "aborted")
       ELSE /\ ipc' = [ipc EXCEPT ![c] = "embed"]
            /\ UNCHANGED <<lock, outcome>>
    /\ UNCHANGED <<initialized, search_engine>>
    /\ UNCHANGED <<envVars, ingestVars, streamVars, storeVars>>

\* Lines 197-211.
InitEmbed(c) ==
    /\ ipc[c] = "embed"
    /\ IF MissingModelConfig(embed_cfg)
       THEN InitReturn(c, "aborted")
       ELSE /\ ipc' = [ipc EXCEPT ![c] = "build"]
            /\ UNCHANGED <<lock, outcome>>
    /\ UNCHANGED <<initialized, search_engine, model_manager>>
    /\ UNCHANGED <<envVars, ingestVars, streamVars, storeVars>>

\* Lines 213-258: token encoder, context builder, the LocalSearch object,
\* then the flag; the lock is released on the way out.
InitBuild(c) ==
    /\ ipc[c] = "build"
    /\ search_engine' = c
    /\ initialized' = TRUE
    /\ lock' = None
    /\ ipc' = [ipc EXCEPT ![c] = "done"]
    /\ outcome' = [outcome EXCEPT ![c] = "built"]
    /\ UNCHANGED <<model_manager, envVars, ingestVars, streamVars, storeVars>>

\* Lines 260-268: a step after the file check raises (a table cannot be read,
\* a client cannot be constructed); the except clause clears the flag and
\* the lock is released.  Line 179 has run when the raise is in the chat step.
InitRaise(c) ==
    /\ ipc[c] \in {"load", "vector", "chat", "embed", "build"}
    /\ initialized' = FlagAfterException
    /\ model_manager' = IF ipc[c] = "chat" THEN c ELSE model_manager
    /\ lock' = None
    /\ ipc' = [ipc EXCEPT ![c] = "done"]
    /\ outcome' = [outcome EXCEPT ![c] = "raised"]
    /\ UNCHANGED <<search_engine, envVars, ingestVars, streamVars, storeVars>>

\* ----------------------------------------------- trigger_ingestion (293-322)

IngestPcs == {"idle", "scheduled", "running", "done"}
IngestResults == {"pending", "ok", "RuntimeError"}

\* Lines 296-297: the engine state after the reset.
Invalidate_Kept(st) == st
Invalidate(st) == [initialized |-> FALSE, search_engine |-> None]

\* main.py 53-62: the endpoint creates the task and answers 202 at once.
TriggerIngestionEndpoint(g) ==
    /\ gpc[g] = "idle"
    /\ gpc' = [gpc EXCEPT ![g] = "scheduled"]
    /\ UNCHANGED <<gres, engine_at_trigger, invalidated>>
    /\ UNCHANGED <<engineVars, envVars, callVars, streamVars, storeVars>>

\* main.py 61-62: what the caller of POST /api/ingest holds, given where
\* the task it started is: nothing before the call, the 202 answer from
\* then on.  The handlers of lines 64-70 guard only create_task; nothing
\* awaits the task, so no later answer replaces the 202.
IngestResponse(pc) == IF pc = "idle" THEN "none" ELSE "accepted"

\* Lines 293-304: the task starts, resets the engine state and starts the CLI.
IngestStart(g) ==
    /\ gpc[g] = "scheduled"
    /\ LET st == Invalidate([initialized |-> initialized, search_engine |-> search_engine])
       IN  /\ initialized' = st.initialized
           /\ search_engine' = st.search_engine
    /\ invalidated' = IF search_engine # None
                      THEN invalidated \cup {search_engine}
                      ELSE invalidated
    /\ engine_at_trigger' = [engine_at_trigger EXCEPT ![g] = search_engine]
    /\ gpc' = [gpc EXCEPT ![g] = "running"]
    /\ UNCHANGED <<gres, model_manager, lock>>
    /\ UNCHANGED <<envVars, callVars, streamVars, storeVars>>

\* Lines 302-322: how the CLI run ends.  "ok": return code 0, the index
\* artifacts are written.  "nonzero": line 313.  "notfound": line 319.
IngestFinish(g) ==
    /\ gpc[g] = "running"
    /\ \E how \in {"ok", "nonzero", "notfound"} :
         /\ gres' = [gres EXCEPT ![g] = IF how = "ok" THEN "ok" ELSE "RuntimeError"]
         /\ output_files' = IF how = "ok" THEN TRUE ELSE output_files
         /\ lancedb_table' = IF how = "ok" THEN TRUE ELSE lancedb_table
    /\ gpc' = [gpc EXCEPT ![g] = "done"]
    /\ UNCHANGED <<engine_at_trigger, invalidated, chat_cfg, embed_cfg>>
    /\ UNCHANGED <<engineVars, callVars, streamVars, storeVars>>

\* ------------------------------------------------------------- storage.py

\* Names a client gives a new topic.
TopicNames == {<<"A">>}

\* models.py 4-6, 20-23 and 25-28.
Message(role, content) == [role |-> role, content |-> content]
Topic(id, name, messages) == [id |-> id, name |-> name, messages |-> messages]
TopicInfo(id, name, preview) == [id |-> id, name |-> name, preview |-> preview]

\* A file json.load or Topic(**data) rejects.
Malformed == [malformed |-> TRUE]
IsTopic(content) == "messages" \in DOMAIN content

\* storage.py 27: the characters of a topic id that the file name keeps
\* (letters, digits, "-" and "_"; "/" stands for every other character).
SafeChars == {"x", "y", "z"}
Sanitize(topic_id) == SelectSeq(topic_id, LAMBDA ch : ch \in SafeChars)

\* storage.py 45-67: what load_topic finds.  "invalid" is the ValueError of
\* _get_topic_path (line 29), caught at line 54.
LoadOutcome(fs, topic_id) ==
    LET name == Sanitize(topic_id)
    IN  IF name = <<>> THEN "invalid"
        ELSE IF name \notin DOMAIN fs THEN "missing"
        ELSE IF ~IsTopic(fs[name]) THEN "malformed"
        ELSE "topic"

\* storage.py 45-53: load_topic returns a Topic, and the Topic it returns
\* (use load_topic only under TopicExists).
TopicExists(fs, topic_id) == LoadOutcome(fs, topic_id) = "topic"
load_topic(fs, topic_id) == fs[Sanitize(topic_id)]

\* storage.py 59-63: load_topic leaves a file it cannot read where it is (the
\* rename is commented out).
FilesAfterLoad_Renamed(fs, topic_id) ==
    IF LoadOutcome(fs, topic_id) = "malformed"
    THEN [f \in DOMAIN fs \ {Sanitize(topic_id)} |-> fs[f]]
    ELSE fs
FilesAfterLoad(fs, topic_id) == fs

\* storage.py 145: os.path.exists(filepath).
FileExists(fs, topic_id) == Sanitize(topic_id) \in DOMAIN fs

\* storage.py 32-43: the whole file is rewritten (and created when absent);
\* the ValueError of an id without a safe character is caught (line 38).
save_topic_Dropped(fs, topic) == fs
save_topic(fs, topic) ==
    LET name == Sanitize(topic.id)
    IN  IF name = <<>> THEN fs
        ELSE [f \in DOMAIN fs \cup {name} |-> IF f = name THEN topic ELSE fs[f]]

\* storage.py 120-131: load, append, save; nothing is written when the topic
\* does not load.
add_message_to_topic_Overwrite(fs, topic_id, message) ==
    IF TopicExists(fs, topic_id)
    THEN LET topic == load_topic(fs, topic_id)
         IN  save_topic(fs, [topic EXCEPT !.messages = <<message>>])
    ELSE fs
add_message_to_topic_Prepend(fs, topic_id, message) ==
    IF TopicExists(fs, topic_id)
    THEN LET topic == load_topic(fs, topic_id)
         IN  save_topic(fs, [topic EXCEPT !.messages = <<message>> \o @])
    ELSE fs
add_message_to_topic_Upsert(fs, topic_id, message) ==
    IF TopicExists(fs, topic_id)
    THEN LET topic == load_topic(fs, topic_id)
         IN  save_topic(fs, [topic EXCEPT !.messages = Append(@, message)])
    ELSE save_topic(fs, Topic(topic_id, <<>>, <<message>>))
add_message_to_topic_Twice(fs, topic_id, message) ==
    IF TopicExists(fs, topic_id)
    THEN LET topic == load_topic(fs, topic_id)
         IN  save_topic(fs, [topic EXCEPT !.messages = Append(Append(@, message), message)])
    ELSE fs
add_message_to_topic(fs, topic_id, message) ==
    IF TopicExists(fs, topic_id)
    THEN LET topic == load_topic(fs, topic_id)
         IN  save_topic(fs, [topic EXCEPT !.messages = Append(@, message)])
    ELSE fs

\* storage.py 120-131 seen from the caller: the calls that found the topic,
\* in the order they were made.
Logged(log, fs, topic_id, message) ==
    IF TopicExists(fs, topic_id)
    THEN [log EXCEPT ![Sanitize(topic_id)] = Append(@, message)]
    ELSE log

\* storage.py 151: os.remove.
remove_file(fs, topic_id) == [f \in DOMAIN fs \ {Sanitize(topic_id)} |-> fs[f]]

\* storage.py 133-170: the files after delete_topic_file and what it returns.
\* os_fails: os.remove raises, or returns and the file is still there.
delete_topic_file_StrictMissing(fs, topic_id, os_fails) ==
    IF FileExists(fs, topic_id) /\ ~os_fails
    THEN [fs |-> remove_file(fs, topic_id), ok |-> TRUE]
    ELSE [fs |-> fs, ok |-> FALSE]
delete_topic_file(fs, topic_id, os_fails) ==
    IF Sanitize(topic_id) = <<>> THEN [fs |-> fs, ok |-> FALSE]
    ELSE IF ~FileExists(fs, topic_id) THEN [fs |-> fs, ok |-> TRUE]
    ELSE IF os_fails THEN [fs |-> fs, ok |-> FALSE]
    ELSE [fs |-> remove_file(fs, topic_id), ok |-> TRUE]

\* str.lower, and the order of the characters by code point.
LowerChar(ch) ==
    CASE ch = "A" -> "a"
      [] ch = "B" -> "b"
      [] ch = "T" -> "t"
      [] OTHER -> ch
Lower(text) == [i \in 1..Len(text) |-> LowerChar(text[i])]
CodePointOrder == <<"1", "2", "3", "A", "B", "T", "a", "b", "t">>
CodePointRank(ch) == CHOOSE i \in 1..Len(CodePointOrder) : CodePointOrder[i] = ch

RECURSIVE TextLess(_, _)
\* Python's < on two strings.
TextLess(a, b) ==
    IF a = <<>> THEN b # <<>>
    ELSE IF b = <<>> THEN FALSE
    ELSE IF Head(a) = Head(b) THEN TextLess(Tail(a), Tail(b))
    ELSE CodePointRank(Head(a)) < CodePointRank(Head(b))

\* storage.py 100, 105, 107: the length a preview is cut to.
PREVIEW_LEN == 50
Ellipsis == <<".", ".", ".">>
\* storage.py 96: "New Topic".
NewTopicPreview == <<"N", "e", "w">>

\* text[:n].
Take(text, n) == SubSeq(text, 1, IF Len(text) < n THEN Len(text) ELSE n)
\* storage.py 100 and 105.
Shorten_OffByOne(text) ==
    Take(text, PREVIEW_LEN) \o (IF Len(text) >= PREVIEW_LEN THEN Ellipsis ELSE <<>>)
Shorten(text) ==
    Take(text, PREVIEW_LEN) \o (IF Len(text) > PREVIEW_LEN THEN Ellipsis ELSE <<>>)

\* storage.py 96-107: the preview of a topic.
Preview_FirstMessage(messages) ==
    IF messages # <<>> /\ messages[1].content # <<>>
    THEN Shorten(messages[1].content)
    ELSE NewTopicPreview
Preview(messages) ==
    LET users == SelectSeq(messages, LAMBDA m : m.role = "user")
        assistants == SelectSeq(messages, LAMBDA m : m.role = "assistant")
    IN  IF users # <<>> /\ users[1].content # <<>>
        THEN Shorten(users[1].content)
        ELSE IF messages = <<>> THEN NewTopicPreview
        ELSE IF assistants # <<>> /\ assistants[1].content # <<>>
        THEN Shorten(assistants[1].content)
        ELSE IF messages[1].content # <<>>
        THEN Take(messages[1].content, PREVIEW_LEN) \o Ellipsis
        ELSE NewTopicPreview

\* storage.py 90-95: the files list_topics can load.
Loadable(fs) == {f \in DOMAIN fs : TopicExists(fs, f)}

\* storage.py 112: the key topics.sort orders by.
SortKey_CaseSensitive(info) == info.name
SortKey(info) == Lower(info.name)

\* storage.py 82-118: what list_topics can return.  os.listdir gives the
\* files in any order and the sort is stable, so topics whose keys are equal
\* come in any order.
list_topics(fs) ==
    LET n == Cardinality(Loadable(fs))
        orders == {o \in [1..n -> Loadable(fs)] : \A i, j \in 1..n : o[i] = o[j] => i = j}
        InfoAt(o, i) == LET topic == load_topic(fs, o[i])
                        IN  TopicInfo(topic.id, topic.name, Preview(topic.messages))
        listings == {[i \in 1..n |-> InfoAt(o, i)] : o \in orders}
    IN  {infos \in listings :
           \A i, j \in 1..n : i < j => ~TextLess(SortKey(infos[j]), SortKey(infos[i]))}

\* storage.py 75: f"Topic {n + 1}".
Digits == <<"1", "2", "3">>
DefaultTopicName(k) == <<"T", Digits[k]>>

\* storage.py 70-80: the files after create_new_topic and the Topic it
\* returns.  id is what uuid4 made; a missing or empty name is replaced by the
\* default name, numbered by the topics list_topics returns.
create_new_topic_CountFiles(fs, id, name) ==
    LET given == IF name = <<>>
                 THEN DefaultTopicName(Cardinality(DOMAIN fs) + 1)
                 ELSE name
        topic == Topic(id, given, <<>>)
    IN  [fs |-> save_topic(fs, topic), topic |-> topic]
create_new_topic(fs, id, name) ==
    LET given == IF name = <<>>
                 THEN DefaultTopicName(Cardinality(Loadable(fs)) + 1)
                 ELSE name
        topic == Topic(id, given, <<>>)
    IN  [fs |-> save_topic(fs, topic), topic |-> topic]

\* The log of appended messages for the topics on file.
InitialLog(fs) == [f \in Loadable(fs) |-> fs[f].messages]

\* main.py 79-82: POST /api/topics.  uuid4 hands out an id never used before.
\* The request names the topic or leaves the name out.
CreateTopic(t) ==
    /\ t \notin minted
    /\ \E name \in TopicNames \cup {<<>>} :
         files' = create_new_topic(files, t, name).fs
    /\ minted' = minted \cup {t}
    /\ appended' = [f \in Loadable(files') |-> IF f \in DOMAIN appended THEN appended[f] ELSE <<>>]
    /\ UNCHANGED <<ret, engineVars, envVars, callVars, ingestVars, streamVars>>

\* main.py 170-190: DELETE /api/topics/{topic_id}.  os.remove can fail
\* (permissions, a locked file) and leave the file.
DeleteTopic(t) ==
    /\ \E os_fails \in BOOLEAN :
         files' = delete_topic_file(files, t, os_fails).fs
    /\ appended' = [f \in Loadable(files') |-> appended[f]]
    /\ UNCHANGED <<minted, ret, engineVars, envVars, callVars, ingestVars, streamVars>>

\* ------------------------------------------ calls of the storage functions

\* The most messages the storage calls append to one topic.
MaxMessages == 2

\* Ids uuid4 makes for the topics the calls create, and the file a previous
\* run left.
StoreIds == {<<"x">>, <<"y">>}
LeftoverId == <<"z">>
\* The ids the calls are given: ids of topics, an id with a character the
\* file name drops, an id without a safe character.
RawIds == StoreIds \cup {LeftoverId, <<"x", "/">>, <<"/">>}
\* The names the calls give (<<>>: no name, or the empty name).
StoreNames == {<<"a">>, <<"B">>}
\* The messages the calls append.
StoreMessages == {Message("user", <<"a">>), Message("assistant", <<"b">>)}

\* No storage function has been called yet.
NoCall == [op |-> "none"]
\* The call repeats the one before it.
Again(op, arg) == ret.op = op /\ ret.arg = arg
\* Optional[Topic] as a value.
Absent == [found |-> FALSE]
Found(topic) == [found |-> TRUE, topic |-> topic]

\* storage.py 70-80: create_new_topic(name).
DoCreateNewTopic(t, name) ==
    /\ t \notin minted
    /\ LET r == create_new_topic(files, t, name)
       IN  /\ files' = r.fs
           /\ ret' = [op |-> "create", arg |-> name, value |-> r.topic,
                      again |-> Again("create", name)]
    /\ minted' = minted \cup {t}
    /\ appended' = [f \in Loadable(files') |-> IF f \in DOMAIN appended THEN appended[f] ELSE <<>>]
    /\ UNCHANGED <<engineVars, envVars, callVars, ingestVars, streamVars>>

\* storage.py 45-67: load_topic(topic_id).
DoLoadTopic(topic_id) ==
    /\ files' = FilesAfterLoad(files, topic_id)
    /\ ret' = [op |-> "load", arg |-> topic_id,
               value |-> IF TopicExists(files, topic_id)
                         THEN Found(load_topic(files, topic_id))
                         ELSE Absent,
               again |-> Again("load", topic_id)]
    /\ UNCHANGED <<minted, appended>>
    /\ UNCHANGED <<engineVars, envVars, callVars, ingestVars, streamVars>>

\* storage.py 82-118: list_topics().
DoListTopics ==
    /\ \E infos \in list_topics(files) :
         ret' = [op |-> "list", arg |-> <<>>, value |-> infos, again |-> Again("list", <<>>)]
    /\ UNCHANGED <<files, minted, appended>>
    /\ UNCHANGED <<engineVars, envVars, callVars, ingestVars, streamVars>>

\* storage.py 120-131: add_message_to_topic(topic_id, message).
DoAddMessage(topic_id, message) ==
    /\ TopicExists(files, topic_id) => Len(load_topic(files, topic_id).messages) < MaxMessages
    /\ files' = add_message_to_topic(files, topic_id, message)
    /\ appended' = Logged(appended, files, topic_id, message)
    /\ ret' = [op |-> "append", arg |-> <<topic_id, message>>,
               value |-> IF TopicExists(files, topic_id)
                         THEN Found(load_topic(files', topic_id))
                         ELSE Absent,
               again |-> Again("append", <<topic_id, message>>)]
    /\ UNCHANGED minted
    /\ UNCHANGED <<engineVars, envVars, callVars, ingestVars, streamVars>>

\* storage.py 133-170: delete_topic_file(topic_id).
DoDeleteTopicFile(topic_id) ==
    /\ \E os_fails \in BOOLEAN :
         LET r == delete_topic_file(files, topic_id, os_fails)
         IN  /\ files' = r.fs
             /\ ret' = [op |-> "delete", arg |-> topic_id, value |-> r.ok,
                        again |-> Again("delete", topic_id)]
    /\ appended' = [f \in Loadable(files') |-> appended[f]]
    /\ UNCHANGED minted
    /\ UNCHANGED <<engineVars, envVars, callVars, ingestVars, streamVars>>

\* ------------------------------------------------- query_rag (271-290)

\* Line 272, negated: the engine can be queried.
EngineReady_Always(flag, engine) == TRUE
EngineReady(flag, engine) == flag /\ engine # None

\* Before search() has returned.
NoResult == [kind |-> "pending"]

\* What awaiting engine.search() can end in.
SearchResults ==
    [kind : {"text"}, text : Responses]
        \cup {[kind |-> "none"]}
        \cup [kind : {"raise"}, error : SearchErrors]

\* Lines 281-290: the reply for what the search ended in.
ReplyOf_Unchecked(result) ==
    CASE result.kind = "raise" -> QueryFailedMsg(result.error)
      [] result.kind = "none" -> NoAnswerMsg
      [] OTHER -> result.text
ReplyOf(result) ==
    CASE result.kind = "raise" -> QueryFailedMsg(result.error)
      [] result.kind = "none" -> NoAnswerMsg
      [] OTHER -> IF result.text # <<>> THEN result.text ELSE NoAnswerMsg

\* ------------------------------------ post_message (main.py 91-168)

StreamPcs == {"idle", "rejected", "start", "query", "search", "chunks", "errend", "done"}

StartEvent(t) == [type |-> "start", topicId |-> t]
ChunkEvent(ch) == [type |-> "chunk", content |-> ch]
ErrorEvent(text) == [type |-> "error", content |-> text]
EndEvent_NoHistory(t, history) == [type |-> "end", topicId |-> t, history |-> <<>>]
EndEvent(t, history) == [type |-> "end", topicId |-> t, history |-> history]

\* The events of one type among evs, in order.
OfType(evs, type) == SelectSeq(evs, LAMBDA e : e.type = type)

\* Line 126: the character the loop sends as its i-th chunk.
ChunkAt_First(text, i) == text[1]
ChunkAt_Reversed(text, i) == text[Len(text) + 1 - i]
ChunkAt(text, i) == text[i]

\* Lines 138 and 157: what the stream yields last.
FinalEvents_None(t, history) == <<>>
FinalEvents(t, history) == <<EndEvent(t, history)>>

\* Lines 134-135 and 153-154: the history sent with the end event, "[]" when
\* the topic does not load.
HistoryOf_BeforeLast(fs, t) ==
    IF TopicExists(fs, t) /\ load_topic(fs, t).messages # <<>>
    THEN SubSeq(load_topic(fs, t).messages, 1, Len(load_topic(fs, t).messages) - 1)
    ELSE <<>>
HistoryOf(fs, t) == IF TopicExists(fs, t) THEN load_topic(fs, t).messages ELSE <<>>

\* Lines 95-106: the body is read (400 without a message), the topic loaded
\* (404 when absent), the user's message appended and saved.  history_for_llm
\* (line 115) is passed to query_rag, which never reads it.
PostMessage(s) ==
    /\ spc[s] = "idle"
    /\ \E t \in TopicIds, text \in UserTexts \cup {<<>>} :
         IF text # <<>> /\ TopicExists(files, t)
         THEN /\ files' = add_message_to_topic(files, t, Message("user", text))
              /\ appended' = Logged(appended, files, t, Message("user", text))
              /\ stopic' = [stopic EXCEPT ![s] = t]
              /\ spc' = [spc EXCEPT ![s] = "start"]
         ELSE /\ spc' = [spc EXCEPT ![s] = "rejected"]
              /\ UNCHANGED <<files, appended, stopic>>
    /\ UNCHANGED <<minted, ret, engine_used, reply, search_result, events, saved>>
    /\ UNCHANGED <<engineVars, envVars, callVars, ingestVars>>

\* Line 112.
StreamStart(s) ==
    /\ spc[s] = "start"
    /\ events' = [events EXCEPT ![s] = Append(@, StartEvent(stopic[s]))]
    /\ spc' = [spc EXCEPT ![s] = "query"]
    /\ UNCHANGED <<stopic, engine_used, reply, search_result, saved>>
    /\ UNCHANGED <<engineVars, envVars, callVars, ingestVars, storeVars>>

\* Lines 115-118 into query_rag 271-280: not ready, the fixed reply comes
\* back at once; ready, search() is called on the object _search_engine names
\* now and the coroutine waits for it.  (search on None raises AttributeError,
\* which line 288 catches.)
QueryCheck(s) ==
    /\ spc[s] = "query"
    /\ IF ~EngineReady(initialized, search_engine)
       THEN /\ reply' = [reply EXCEPT ![s] = NotReadyMsg]
            /\ spc' = [spc EXCEPT ![s] = "chunks"]
            /\ UNCHANGED engine_used
       ELSE IF search_engine = None
       THEN /\ reply' = [reply EXCEPT ![s] = QueryFailedMsg("AttributeError")]
            /\ spc' = [spc EXCEPT ![s] = "chunks"]
            /\ UNCHANGED engine_used
       ELSE /\ engine_used' = [engine_used EXCEPT ![s] = search_engine]
            /\ spc' = [spc EXCEPT ![s] = "search"]
            /\ UNCHANGED reply
    /\ UNCHANGED <<stopic, search_result, events, saved>>
    /\ UNCHANGED <<engineVars, envVars, callVars, ingestVars, storeVars>>

\* query_rag 280-290: the search ends and query_rag returns.
QueryReturn(s) ==
    /\ spc[s] = "search"
    /\ \E result \in SearchResults :
         /\ search_result' = [search_result EXCEPT ![s] = result]
         /\ reply' = [reply EXCEPT ![s] = ReplyOf(result)]
    /\ spc' = [spc EXCEPT ![s] = "chunks"]
    /\ UNCHANGED <<stopic, engine_used, events, saved>>
    /\ UNCHANGED <<engineVars, envVars, callVars, ingestVars, storeVars>>

\* Lines 124-127: one turn of the loop.
EmitChunk(s) ==
    /\ spc[s] = "chunks"
    /\ LET sent == Len(OfType(events[s], "chunk"))
       IN  /\ sent < Len(reply[s])
           /\ events' = [events EXCEPT ![s] = Append(@, ChunkEvent(ChunkAt(reply[s], sent + 1)))]
    /\ UNCHANGED <<spc, stopic, engine_used, reply, search_result, saved>>
    /\ UNCHANGED <<engineVars, envVars, callVars, ingestVars, storeVars>>

\* Lines 129-138: after the last chunk the reply is saved, the topic loaded
\* again and the end event sent.
PersistAndEnd(s) ==
    /\ spc[s] = "chunks"
    /\ Len(OfType(events[s], "chunk")) = Len(reply[s])
    /\ LET t == stopic[s]
           after == add_message_to_topic(files, t, Message("assistant", reply[s]))
       IN  /\ files' = after
           /\ appended' = Logged(appended, files, t, Message("assistant", reply[s]))
           /\ saved' = [saved EXCEPT ![s] = IF TopicExists(files, t) THEN Append(@, reply[s]) ELSE @]
           /\ events' = [events EXCEPT ![s] = @ \o FinalEvents(t, HistoryOf(after, t))]
    /\ spc' = [spc EXCEPT ![s] = "done"]
    /\ UNCHANGED <<minted, ret, stopic, engine_used, reply, search_result>>
    /\ UNCHANGED <<engineVars, envVars, callVars, ingestVars>>

\* Lines 140-150: a step of the loop or the save raises; the fixed error
\* reply is saved and sent as an error event.
StreamRaise(s) ==
    /\ spc[s] = "chunks"
    /\ LET t == stopic[s]
       IN  /\ files' = add_message_to_topic(files, t, Message("assistant", StreamErrorMsg))
           /\ appended' = Logged(appended, files, t, Message("assistant", StreamErrorMsg))
           /\ saved' = [saved EXCEPT ![s] = IF TopicExists(files, t) THEN Append(@, StreamErrorMsg) ELSE @]
    /\ events' = [events EXCEPT ![s] = Append(@, ErrorEvent(StreamErrorMsg))]
    /\ spc' = [spc EXCEPT ![s] = "errend"]
    /\ UNCHANGED <<minted, ret, stopic, engine_used, reply, search_result>>
    /\ UNCHANGED <<engineVars, envVars, callVars, ingestVars>>

\* Lines 152-157: the topic is loaded again and the end event sent.
StreamErrorEnd(s) ==
    /\ spc[s] = "errend"
    /\ events' = [events EXCEPT ![s] = @ \o FinalEvents(stopic[s], HistoryOf(files, stopic[s]))]
    /\ spc' = [spc EXCEPT ![s] = "done"]
    /\ UNCHANGED <<stopic, engine_used, reply, search_result, saved>>
    /\ UNCHANGED <<engineVars, envVars, callVars, ingestVars, storeVars>>

\* ---------------------------------------------------------- specifications

\* No file in CHAT_HISTORY_DIR, or the one topic a previous run left.
InitialFiles ==
    {<<>>} \cup {[id \in {t} |-> Topic(t, <<"A">>, <<>>)] : t \in TopicIds}

\* The process after import: nothing initialized, no request yet.  The index
\* artifacts and the settings are as the deployment has them.
Init ==
    /\ initialized = FALSE
    /\ search_engine = None
    /\ model_manager = None
    /\ lock = None
    /\ output_files \in BOOLEAN
    /\ lancedb_table \in BOOLEAN
    /\ chat_cfg \in BOOLEAN
    /\ embed_cfg \in BOOLEAN
    /\ ipc = [c \in Callers |-> "idle"]
    /\ outcome = [c \in Callers |-> "pending"]
    /\ gpc = [g \in Ingests |-> "idle"]
    /\ gres = [g \in Ingests |-> "pending"]
    /\ engine_at_trigger = [g \in Ingests |-> None]
    /\ invalidated = {}
    /\ spc = [s \in Streams |-> "idle"]
    /\ stopic = [s \in Streams |-> None]
    /\ engine_used = [s \in Streams |-> None]
    /\ reply = [s \in Streams |-> <<>>]
    /\ search_result = [s \in Streams |-> NoResult]
    /\ events = [s \in Streams |-> <<>>]
    /\ saved = [s \in Streams |-> <<>>]
    /\ files \in InitialFiles
    /\ minted = DOMAIN files
    /\ appended = InitialLog(files)
    /\ ret = NoCall

InitStep(c) ==
    \/ InitCall(c)
    \/ InitAcquire(c)
    \/ InitCheckFiles(c)
    \/ InitLoad(c)
    \/ InitVector(c)
    \/ InitChat(c)
    \/ InitEmbed(c)
    \/ InitBuild(c)
    \/ InitRaise(c)

IngestStep(g) ==
    \/ TriggerIngestionEndpoint(g)
    \/ IngestStart(g)
    \/ IngestFinish(g)

StreamStep(s) ==
    \/ PostMessage(s)
    \/ StreamStart(s)
    \/ QueryCheck(s)
    \/ QueryReturn(s)
    \/ EmitChunk(s)
    \/ PersistAndEnd(s)
    \/ StreamRaise(s)
    \/ StreamErrorEnd(s)

StoreStep(t) ==
    \/ CreateTopic(t)
    \/ DeleteTopic(t)

\* The engine's life: the calls of initialize_rag, the ingestion task and one
\* message request querying the engine.
Next ==
    \/ \E c \in Callers : InitStep(c)
    \/ \E g \in Ingests : IngestStep(g)
    \/ StreamStep("s1")

Spec == Init /\ [][Next]_vars

\* The server once lifespan (main.py 18-24) has awaited initialize_rag: call
\* c1 has built the engine, or has returned at the file check.
InitServing ==
    /\ initialized \in BOOLEAN
    /\ search_engine = IF initialized THEN "c1" ELSE None
    /\ model_manager = search_engine
    /\ lock = None
    /\ output_files = initialized
    /\ lancedb_table = initialized
    /\ chat_cfg = TRUE
    /\ embed_cfg = TRUE
    /\ ipc = [c \in Callers |-> IF c = "c1" THEN "done" ELSE "idle"]
    /\ outcome = [c \in Callers |->
                    IF c # "c1" THEN "pending"
                    ELSE IF initialized THEN "built" ELSE "aborted"]
    /\ gpc = [g \in Ingests |-> "idle"]
    /\ gres = [g \in Ingests |-> "pending"]
    /\ engine_at_trigger = [g \in Ingests |-> None]
    /\ invalidated = {}
    /\ spc = [s \in Streams |-> "idle"]
    /\ stopic = [s \in Streams |-> None]
    /\ engine_used = [s \in Streams |-> None]
    /\ reply = [s \in Streams |-> <<>>]
    /\ search_result = [s \in Streams |-> NoResult]
    /\ events = [s \in Streams |-> <<>>]
    /\ saved = [s \in Streams |-> <<>>]
    /\ files \in InitialFiles
    /\ minted = DOMAIN files
    /\ appended = InitialLog(files)
    /\ ret = NoCall

\* The requests the server takes after startup: message requests side by
\* side, topic requests and the ingestion task.
NextServing ==
    \/ \E s \in Streams : StreamStep(s)
    \/ \E t \in TopicIds : StoreStep(t)
    \/ \E g \in Ingests : IngestStep(g)

SpecServing == InitServing /\ [][NextServing]_vars

\* CHAT_HISTORY_DIR when the storage calls start: empty, or holding a file
\* that does not parse.
InitialStoreFiles ==
    {<<>>, [f \in {LeftoverId} |-> Malformed]}

\* The storage module on its own: no request is being served.
InitStore ==
    /\ initialized = FALSE
    /\ search_engine = None
    /\ model_manager = None
    /\ lock = None
    /\ output_files = TRUE
    /\ lancedb_table = TRUE
    /\ chat_cfg = TRUE
    /\ embed_cfg = TRUE
    /\ ipc = [c \in Callers |-> "idle"]
    /\ outcome = [c \in Callers |-> "pending"]
    /\ gpc = [g \in Ingests |-> "idle"]
    /\ gres = [g \in Ingests |-> "pending"]
    /\ engine_at_trigger = [g \in Ingests |-> None]
    /\ invalidated = {}
    /\ spc = [s \in Streams |-> "idle"]
    /\ stopic = [s \in Streams |-> None]
    /\ engine_used = [s \in Streams |-> None]
    /\ reply = [s \in Streams |-> <<>>]
    /\ search_result = [s \in Streams |-> NoResult]
    /\ events = [s \in Streams |-> <<>>]
    /\ saved = [s \in Streams |-> <<>>]
    /\ files \in InitialStoreFiles
    /\ minted = DOMAIN files
    /\ appended = InitialLog(files)
    /\ ret = NoCall

\* The storage functions called one after another, in any order.
NextStore ==
    \/ \E t \in StoreIds, name \in StoreNames \cup {<<>>} : DoCreateNewTopic(t, name)
    \/ \E topic_id \in RawIds : DoLoadTopic(topic_id)
    \/ DoListTopics
    \/ \E topic_id \in RawIds, message \in StoreMessages : DoAddMessage(topic_id, message)
    \/ \E topic_id \in RawIds : DoDeleteTopicFile(topic_id)

SpecStore == InitStore /\ [][NextStore]_vars

\* The most messages a topic holds when its preview is computed.
MaxPreviewMessages == 2

\* Contents around the cut of storage.py 100: none, short, exactly
\* PREVIEW_LEN characters, one character more.
ShortText == <<"a">>
ExactText == [i \in 1..PREVIEW_LEN |-> "a"]
LongText == [i \in 1..(PREVIEW_LEN + 1) |-> IF i <= PREVIEW_LEN THEN "a" ELSE "b"]
PreviewTexts == {<<>>, ShortText, ExactText, LongText}
\* models.py 6: role is "user" or "assistant".
PreviewMessages == {Message(role, text) : role \in {"user", "assistant"}, text \in PreviewTexts}
PreviewLists == UNION {[1..n -> PreviewMessages] : n \in 0..MaxPreviewMessages}

\* No request is being served and the engine was never built.
NoRequests ==
    /\ initialized = FALSE
    /\ search_engine = None
    /\ model_manager = None
    /\ lock = None
    /\ output_files = TRUE
    /\ lancedb_table = TRUE
    /\ chat_cfg = TRUE
    /\ embed_cfg = TRUE
    /\ ipc = [c \in Callers |-> "idle"]
    /\ outcome = [c \in Callers |-> "pending"]
    /\ gpc = [g \in Ingests |-> "idle"]
    /\ gres = [g \in Ingests |-> "pending"]
    /\ engine_at_trigger = [g \in Ingests |-> None]
    /\ invalidated = {}
    /\ spc = [s \in Streams |-> "idle"]
    /\ stopic = [s \in Streams |-> None]
    /\ engine_used = [s \in Streams |-> None]
    /\ reply = [s \in Streams |-> <<>>]
    /\ search_result = [s \in Streams |-> NoResult]
    /\ events = [s \in Streams |-> <<>>]
    /\ saved = [s \in Streams |-> <<>>]

\* CHAT_HISTORY_DIR holding one topic with any message list.
InitPreview ==
    /\ NoRequests
    /\ \E messages \in PreviewLists :
         files = [f \in TopicIds |-> Topic(f, ShortText, messages)]
    /\ minted = DOMAIN files
    /\ appended = InitialLog(files)
    /\ ret = NoCall

\* list_topics computing the preview of that topic.
NextPreview == DoListTopics

SpecPreview == InitPreview /\ [][NextPreview]_vars

\* A fresh server whose engine was never built (no index artifacts were
\* loaded) and whose CHAT_HISTORY_DIR is empty.
InitScenario ==
    /\ NoRequests
    /\ files = <<>>
    /\ minted = {}
    /\ appended = InitialLog(files)
    /\ ret = NoCall

\* Topic and message requests against that server; nothing calls
\* initialize_rag, so the engine stays uninitialized and no search runs.
NextScenario ==
    \/ \E t \in TopicIds : CreateTopic(t)
    \/ DoListTopics
    \/ \E t \in TopicIds : DoLoadTopic(t)
    \/ \E s \in Streams : PostMessage(s)
    \/ \E s \in Streams : StreamStart(s)
    \/ \E s \in Streams : QueryCheck(s)
    \/ \E s \in Streams : EmitChunk(s)
    \/ \E s \in Streams : PersistAndEnd(s)
    \/ \E s \in Streams : StreamRaise(s)
    \/ \E s \in Streams : StreamErrorEnd(s)

SpecScenario == InitScenario /\ [][NextScenario]_vars

\* The calls of initialize_rag and the ingestion task, without message
\* requests.
NextInit ==
    \/ \E c \in Callers : InitStep(c)
    \/ \E g \in Ingests : IngestStep(g)

\* The event loop runs every coroutine that can go on: a call of
\* initialize_rag that has a step to take takes it in the end, and
\* asyncio.Lock wakes a waiter whenever the lock is released.  Nothing is
\* assumed of the ingestion task.
SpecInitFair ==
    /\ Init
    /\ [][NextInit]_vars
    /\ \A c \in Callers : WF_vars(InitStep(c))

\* The values the program counters and results range over.
TypeOK ==
    /\ initialized \in BOOLEAN
    /\ search_engine \in Callers \cup {None}
    /\ model_manager \in Callers \cup {None}
    /\ lock \in Callers \cup {None}
    /\ ipc \in [Callers -> CallPcs]
    /\ outcome \in [Callers -> Outcomes]
    /\ gpc \in [Ingests -> IngestPcs]
    /\ gres \in [Ingests -> IngestResults]
    /\ spc \in [Streams -> StreamPcs]
    /\ DOMAIN files \subseteq minted
    /\ DOMAIN appended = Loadable(files)

\* ------------------------------------------------------------------ claims

\* The steps of initialize_rag between taking and releasing the lock.
CriticalPcs == {"files", "load", "vector", "chat", "embed", "build"}

\* The calls that ran the initialization sequence (got past line 122).
Ran(c) == outcome[c] \in {"aborted", "raised", "built"}
Failed(c) == outcome[c] \in {"aborted", "raised"}
AllCallsReturned == \A c \in Callers : ipc[c] = "done"

\* No ingestion task has reset the engine state.
NoReset == \A g \in Ingests : gpc[g] \in {"idle", "scheduled"}

\* Everything initialization checks is in place.
ArtifactsValid == output_files /\ lancedb_table /\ chat_cfg /\ embed_cfg

\* C1 as stated: once the concurrent calls of initialize_rag have all
\* returned (no ingestion in between), exactly one of them has run the
\* initialization sequence and all of them have seen the same state on return.
C1_ExactlyOneSequence ==
    (AllCallsReturned /\ NoReset) =>
        /\ Cardinality({c \in Callers : Ran(c)}) = 1
        /\ \/ \A c \in Callers : outcome[c] \in {"built", "skipped", "rechecked"}
           \/ \A c \in Callers : Failed(c)

\* C1 as amended: with no ingestion in between, at most one call of
\* initialize_rag builds the engine; while a call is inside the sequence the
\* state is not READY and no call has built; a call that finds the state
\* READY runs nothing; a call runs the sequence again only when every
\* sequence before it failed, so that when all calls have returned either one
\* built and the state is READY, or every call ran the sequence and failed.
C1_AtMostOneSuccess ==
    NoReset =>
        /\ Cardinality({c \in Callers : outcome[c] = "built"}) <= 1
        /\ initialized <=> (\E c \in Callers : outcome[c] = "built")
        /\ \A c \in Callers : outcome[c] = "built" => search_engine = c
        /\ \A c \in Callers :
             ipc[c] \in CriticalPcs =>
                 ~initialized /\ (\A d \in Callers : d # c => outcome[d] # "built")
        /\ \A c \in Callers :
             outcome[c] \in {"skipped", "rechecked"} =>
                 \E d \in Callers : outcome[d] = "built"
        /\ AllCallsReturned =>
             \/ \E c \in Callers : outcome[c] = "built"
             \/ \A c \in Callers : Failed(c)

\* C1 witness: one call built the engine and another, which had waited for
\* the lock, found the state READY at line 122 and ran nothing.
C1_Witness ==
    /\ NoReset
    /\ AllCallsReturned
    /\ \E c, d \in Callers : outcome[c] = "built" /\ outcome[d] = "rechecked"

\* C2 as stated: a query that finds the engine invalidated (state
\* UNINITIALIZED after an ingestion task reset it, the indexing run over, the
\* artifacts valid, no initialization in flight) re-runs the initialization
\* before answering: the state becomes READY and the query goes to a newly
\* built engine.
C2_QueryReinitializes ==
    [][\A s \in Streams :
          ( /\ spc[s] = "query"
            /\ spc'[s] # "query"
            /\ ~initialized
            /\ \E g \in Ingests : gpc[g] = "done" /\ gres[g] = "ok"
            /\ ArtifactsValid
            /\ lock = None )
          => ( /\ initialized'
               /\ search_engine' \notin invalidated \cup {None}
               /\ engine_used'[s] = search_engine' )]_vars

\* C3: a stream that has ended has yielded exactly one end event, as its last
\* event; a stream that has not ended has yielded none.
C3_ExactlyOneEnd ==
    \A s \in Streams :
        LET ends == Len(OfType(events[s], "end"))
        IN  /\ ends <= 1
            /\ spc[s] = "done" <=> ends = 1
            /\ ends = 1 => events[s][Len(events[s])].type = "end"

\* C3 witness: one stream ended on the success path and another on the error
\* path.
C3_Witness ==
    \E s, u \in Streams :
        /\ spc[s] = "done" /\ OfType(events[s], "error") = <<>>
        /\ spc[u] = "done" /\ OfType(events[u], "error") # <<>>

\* The text a client puts together from the stream's chunk events.
ChunkText(evs) ==
    LET chunks == OfType(evs, "chunk")
    IN  [i \in 1..Len(chunks) |-> chunks[i].content]

\* C4: a stream that has ended wrote at most one assistant message to its
\* topic; when it wrote one, its content is the concatenation of the stream's
\* chunk payloads on the success path and the payload of its error event on
\* the error path.
C4_ChunksReconstructSaved ==
    \A s \in Streams :
        spc[s] = "done" =>
            /\ Len(saved[s]) <= 1
            /\ saved[s] # <<>> =>
                 LET errors == OfType(events[s], "error")
                 IN  IF errors = <<>>
                     THEN ChunkText(events[s]) = saved[s][1]
                     ELSE /\ Len(errors) = 1
                          /\ errors[1].content = saved[s][1]

\* C4 witness: one stream saved an engine answer of two different characters
\* after sending it chunk by chunk, and another saved the error reply after
\* it had sent a chunk.
C4_Witness ==
    \E s, u \in Streams :
        /\ spc[s] = "done" /\ engine_used[s] # None
        /\ Len(saved[s]) = 1 /\ saved[s][1] = <<"a", "b">>
        /\ OfType(events[s], "error") = <<>>
        /\ spc[u] = "done" /\ saved[u] = <<StreamErrorMsg>>
        /\ OfType(events[u], "chunk") # <<>>

\* C5 as stated: when an ingestion task that found the engine READY has
\* failed, the state is READY with the engine object the task found.
C5_FailedIngestionKeepsEngine ==
    \A g \in Ingests :
        (gpc[g] = "done" /\ gres[g] = "RuntimeError" /\ engine_at_trigger[g] # None)
            => (initialized /\ search_engine = engine_at_trigger[g])

\* The check of the step a call is at fails.
CheckFails(c) ==
    \/ ipc[c] = "files" /\ ~output_files
    \/ ipc[c] = "vector" /\ ~lancedb_table
    \/ ipc[c] = "chat" /\ ~chat_cfg
    \/ ipc[c] = "embed" /\ ~embed_cfg

\* C6: a call of initialize_rag whose step fails its check ends there, and
\* every call that ends by a failed check or a raise leaves the state
\* UNINITIALIZED with no engine and the lock released; a call that takes the
\* lock with the state UNINITIALIZED starts at the first step.
C6_FailureAborts ==
    [][\A c \in Callers :
          /\ (CheckFails(c) /\ ipc'[c] # ipc[c]) => (ipc'[c] = "done" /\ Failed(c)')
          /\ (~Failed(c) /\ Failed(c)') =>
                 (~initialized' /\ search_engine' = None /\ lock' = None)
          /\ (ipc[c] = "acquire" /\ ipc'[c] # "acquire" /\ ~initialized) =>
                 ipc'[c] = "files"]_vars

\* C6 witness: one call has ended at a failed check and the next call is at
\* the first step of the sequence.
C6_Witness ==
    \E c, d \in Callers :
        /\ outcome[c] = "aborted"
        /\ ipc[d] = "files"
        /\ ~initialized /\ search_engine = None

\* C7: once an ingestion task has reset the state, a query that passes its
\* readiness check calls an engine object that did not exist at any reset,
\* and a query that does not pass gets the fixed not-ready reply and calls no
\* engine.
C7_NoStaleEngine ==
    [][\A s \in Streams :
          (spc[s] = "query" /\ spc'[s] # "query" /\ invalidated # {}) =>
              \/ /\ spc'[s] = "search"
                 /\ engine_used'[s] \notin invalidated \cup {None}
              \/ /\ spc'[s] = "chunks"
                 /\ reply'[s] = NotReadyMsg
                 /\ engine_used'[s] = None]_vars

\* C7 witness: a query awaits the search of an engine built after the reset
\* that dropped an earlier engine.
C7_Witness ==
    \E s \in Streams :
        /\ spc[s] = "search"
        /\ invalidated # {}
        /\ engine_used[s] \notin invalidated \cup {None}

\* C8: at most one call of initialize_rag is between taking and releasing
\* the lock, and that call holds the lock.
C8_OneInitializationInFlight ==
    /\ Cardinality({c \in Callers : ipc[c] \in CriticalPcs}) <= 1
    /\ \A c \in Callers : ipc[c] \in CriticalPcs => lock = c

\* C8 witness: one call is inside the initialization steps while another
\* waits for the lock.
C8_Witness ==
    \E c, d \in Callers : ipc[c] \in CriticalPcs /\ ipc[d] = "acquire"

\* C9: whenever the flag is true an engine object is present, it was built by
\* a call that passed every step, and everything the steps check is in place;
\* and an engine object is present only while the flag is true.
C9_ReadyOnlyWithEngine ==
    /\ initialized =>
         /\ search_engine # None
         /\ search_engine \in Callers /\ outcome[search_engine] = "built"
         /\ ArtifactsValid
    /\ search_engine # None => initialized

\* C9 witness: the state is READY again after an ingestion task reset it and
\* a re-initialization failed.
C9_Witness ==
    /\ initialized
    /\ invalidated # {}
    /\ \E c \in Callers : Failed(c) /\ engine_at_trigger["g1"] # None

\* C10: a query that finds the flag false or the engine absent gets the fixed
\* not-ready reply, goes on to send it (no raise) and calls no engine.
C10_NotReadyReply ==
    [][\A s \in Streams :
          (spc[s] = "query" /\ spc'[s] # "query" /\ ~(initialized /\ search_engine # None)) =>
              /\ reply'[s] = NotReadyMsg
              /\ engine_used'[s] = None
              /\ spc'[s] = "chunks"]_vars

\* C10 witness: a request is sending the not-ready reply, no engine called.
C10_Witness ==
    \E s \in Streams :
        /\ spc[s] = "chunks"
        /\ reply[s] = NotReadyMsg
        /\ engine_used[s] = None
        /\ ~initialized

\* The search ended without a usable response: no result, no response
\* attribute, or an empty response text (query_rag line 281, negated).
EmptyResult(result) ==
    \/ result.kind = "none"
    \/ result.kind = "text" /\ result.text = <<>>

\* The fixed "error querying" reply with some error category in it.
IsQueryFailedMsg(text) == Len(text) = 3 /\ text[1] = "Q" /\ text[2] = "F"

\* C11 as stated: when the engine's search raises, or returns an empty or
\* malformed result, query_rag returns the "query failed" message with the
\* error category in it.
C11_FailureGivesQueryFailed ==
    [][\A s \in Streams :
          (spc[s] = "search" /\ spc'[s] # "search"
             /\ (search_result'[s].kind = "raise" \/ EmptyResult(search_result'[s]))) =>
              IsQueryFailedMsg(reply'[s])]_vars

\* C11, amended: a search that raises gives the "query failed" message ending
\* in the class of the exception; a search that returns nothing usable gives
\* the fixed "no clear answer" message, which names no error; either way
\* query_rag returns to the stream, which goes on to send the reply.
C11_FailureReplies ==
    [][\A s \in Streams :
          (spc[s] = "search" /\ spc'[s] # "search") =>
              /\ search_result'[s].kind = "raise" =>
                   reply'[s] = <<"Q", "F", search_result'[s].error>>
              /\ EmptyResult(search_result'[s]) => reply'[s] = <<"N", "A">>
              /\ spc'[s] = "chunks"]_vars

\* C11 witness: one request got the reply for a search that raised, the other
\* the reply for a search that returned nothing.
C11_Witness ==
    /\ search_result["s1"].kind = "raise"
    /\ reply["s1"] = QueryFailedMsg("TimeoutError")
    /\ EmptyResult(search_result["s2"])
    /\ reply["s2"] = NoAnswerMsg

\* The assistant message the error handler saves (main.py 146).
ErrorReply == [role |-> "assistant", content |-> <<"I", "E">>]
Contains(history, message) == \E i \in 1..Len(history) : history[i] = message
Last(seq) == seq[Len(seq)]
\* The request went through the error handler (main.py 140-157).
TookErrorPath(s) == OfType(events[s], "error") # <<>>

\* C12 as stated: a stream that raised after its start event has saved the
\* fixed error message as the assistant's reply, has sent exactly one error
\* event with it, and has ended with an end event carrying the topic id and a
\* history that contains the error message.
C12_ErrorAlwaysPersisted ==
    \A s \in Streams :
        (spc[s] = "done" /\ TookErrorPath(s)) =>
            /\ saved[s] = <<ErrorReply.content>>
            /\ OfType(events[s], "error") = <<[type |-> "error", content |-> ErrorReply.content]>>
            /\ Last(events[s]).type = "end"
            /\ Last(events[s]).topicId = stopic[s]
            /\ Contains(Last(events[s]).history, ErrorReply)

\* C12, amended: the handler sends exactly one error event with the fixed
\* message and then the end event with the topic id; while the topic is still
\* on file the message is saved as the assistant's reply and the history in
\* the end event contains it; once the topic has been deleted nothing is
\* saved and the history is empty.
C12_ErrorPathPersistsAndEnds ==
    [][\A s \in Streams :
          LET t == stopic[s]
              onFile == t \in DOMAIN files
          IN  /\ (spc[s] = "chunks" /\ spc'[s] = "errend") =>
                   /\ events'[s] = Append(events[s], [type |-> "error", content |-> ErrorReply.content])
                   /\ IF onFile
                      THEN /\ files'[t].messages = Append(files[t].messages, ErrorReply)
                           /\ saved'[s] = Append(saved[s], ErrorReply.content)
                      ELSE /\ files' = files
                           /\ saved'[s] = saved[s]
              /\ (spc[s] = "errend" /\ spc'[s] = "done") =>
                   /\ Len(OfType(events'[s], "error")) = 1
                   /\ Len(events'[s]) = Len(events[s]) + 1
                   /\ Last(events[s]).type = "error"
                   /\ Last(events'[s]).type = "end"
                   /\ Last(events'[s]).topicId = t
                   /\ IF onFile
                      THEN /\ Last(events'[s]).history = files[t].messages
                           /\ Contains(Last(events'[s]).history, ErrorReply)
                      ELSE Last(events'[s]).history = <<>>]_vars

\* C12 witness: a request ended through the error handler and its end event
\* carries a history with the error message in it.
C12_Witness ==
    \E s \in Streams :
        /\ spc[s] = "done"
        /\ TookErrorPath(s)
        /\ saved[s] = <<StreamErrorMsg>>
        /\ Contains(Last(events[s]).history, ErrorReply)

\* The events a request on the success path has sent: start, then the
\* characters of the reply in order, then (when done) end; the reply is saved
\* only with the last step, and the history in the end event has it already.
C13_Positions ==
    \A s \in Streams :
        LET evs == events[s]
            n == Len(OfType(evs, "chunk"))
        IN  /\ spc[s] \in {"idle", "rejected", "start"} => evs = <<>>
            /\ evs # <<>> => evs[1] = [type |-> "start", topicId |-> stopic[s]]
            /\ \A i \in 2..Len(evs) : evs[i].type # "start"
            /\ spc[s] \in {"query", "search"} => Len(evs) = 1 /\ saved[s] = <<>>
            /\ (spc[s] \in {"chunks", "done"} /\ ~TookErrorPath(s)) =>
                 /\ n <= Len(reply[s])
                 /\ \A i \in 1..n : evs[i + 1] = [type |-> "chunk", content |-> reply[s][i]]
                 /\ spc[s] = "chunks" => Len(evs) = n + 1 /\ saved[s] = <<>>
                 /\ spc[s] = "done" =>
                      /\ n = Len(reply[s])
                      /\ Len(evs) = n + 2
                      /\ evs[n + 2].type = "end"
                      /\ saved[s] \in {<<>>, <<reply[s]>>}
                      /\ saved[s] # <<>> =>
                           Contains(evs[n + 2].history, [role |-> "assistant", content |-> reply[s]])

\* query_rag is entered once, after the start event, and its reply is set
\* once; after the end event the request saves and sends nothing.
C13_Steps ==
    \A s \in Streams :
        /\ spc'[s] = "query" => spc[s] \in {"start", "query"}
        /\ reply'[s] # reply[s] => spc[s] \in {"query", "search"} /\ spc'[s] = "chunks"
        /\ spc[s] = "done" => saved'[s] = saved[s] /\ events'[s] = events[s] /\ spc'[s] = "done"

\* C13: on the success path the start event comes first, the query is made
\* once, the chunks follow in the order of the reply's characters, the
\* assistant message is saved, and only then the end event is sent; no chunk
\* comes before start and nothing is saved after end.
C13_SuccessOrder == []C13_Positions /\ [][C13_Steps]_vars

\* C13 witness: a request has ended on the success path after sending the two
\* different characters of its reply, and the reply is saved.
C13_Witness ==
    \E s \in Streams :
        /\ spc[s] = "done"
        /\ ~TookErrorPath(s)
        /\ reply[s] = <<"a", "b">>
        /\ saved[s] = <<reply[s]>>

\* A request on the success path saves its reply and sends its end event in
\* this step (main.py 129-138).
Ends(s) == spc[s] = "chunks" /\ spc'[s] = "done"

C15_AppendedInCallOrder ==
    /\ \A f \in DOMAIN files :
         "messages" \in DOMAIN files[f] =>
             f \in DOMAIN appended /\ files[f].messages = appended[f]
    /\ (ret.op = "load" /\ ret.value.found) =>
         ret.value.topic.messages = appended[Sanitize(ret.arg)]

\* C15 witness: load_topic has returned a topic with the two different
\* messages appended to it.
C15_Witness ==
    /\ ret.op = "load"
    /\ ret.value.found
    /\ Len(ret.value.topic.messages) = 2
    /\ ret.value.topic.messages[1] # ret.value.topic.messages[2]
    /\ ret.value.topic.messages = appended[Sanitize(ret.arg)]

IsPrefix(a, b) == Len(a) <= Len(b) /\ SubSeq(b, 1, Len(a)) = a

\* C16: in every step of the interleaved requests, the message list of a
\* topic that is on file before and after the step keeps what it had and
\* grows only at its end.
C16_HistoryOnlyGrows ==
    [][\A f \in DOMAIN files \cap DOMAIN files' :
          ("messages" \in DOMAIN files[f] /\ "messages" \in DOMAIN files'[f]) =>
              IsPrefix(files[f].messages, files'[f].messages)]_vars

\* C16 witness: both requests have written their user message and their
\* reply to the same topic.
C16_Witness ==
    \E f \in DOMAIN files :
        /\ Len(files[f].messages) >= 4
        /\ \A s \in Streams : stopic[s] = f /\ saved[s] # <<>>

\* C17: create_new_topic with a name returns a topic with a new id, that
\* name and no messages, and load_topic of that id, on the files as the call
\* left them and when called next, returns the same topic.
C17_CreateThenLoad ==
    [][/\ minted' # minted =>
            LET topic == ret'.value
                name == ret'.arg
            IN  /\ ret'.op = "create"
                /\ topic.id \notin minted
                /\ topic.messages = <<>>
                /\ name # <<>> => topic.name = name
                /\ LoadOutcome(files', topic.id) = "topic"
                /\ load_topic(files', topic.id) = topic
       /\ (ret.op = "create" /\ ret'.op = "load" /\ ret'.arg = ret.value.id) =>
            ret'.value = [found |-> TRUE, topic |-> ret.value]]_vars

\* C17 witness: a topic was created with the name "B" and load_topic has
\* returned it.
C17_Witness ==
    /\ ret.op = "load"
    /\ ret.value.found
    /\ ret.value.topic = [id |-> ret.arg, name |-> <<"B">>, messages |-> <<>>]
    /\ ret.arg \in minted

\* C18: delete_topic_file returns true with the file absent afterwards, or
\* false with the file still there or with an id that has no safe character;
\* it touches no other file; called again on the same id after returning
\* true, it returns true again and changes nothing.
C18_DeleteIdempotent ==
    [][ret'.op = "delete" =>
          LET name == SelectSeq(ret'.arg, LAMBDA ch : ch \in SafeChars)
          IN  /\ ret'.value => name \notin DOMAIN files'
              /\ ~ret'.value => (name = <<>> \/ name \in DOMAIN files')
              /\ \A f \in DOMAIN files \ {name} : f \in DOMAIN files' /\ files'[f] = files[f]
              /\ DOMAIN files' \subseteq DOMAIN files
              /\ (ret.op = "delete" /\ ret.arg = ret'.arg /\ ret.value) =>
                   ret'.value /\ files' = files]_vars

\* C18 witness: the second of two delete_topic_file calls on the id of a
\* topic that was on file has returned true.
C18_Witness ==
    /\ ret.op = "delete"
    /\ ret.again
    /\ ret.value
    /\ ret.arg \in minted
    /\ ret.arg \notin DOMAIN files

\* C19: load_topic changes no file, and returns None for an id without a
\* safe character, for an id with no file, and for a file that does not parse.
C19_LoadFailsClosed ==
    [][ret'.op = "load" =>
          LET name == SelectSeq(ret'.arg, LAMBDA ch : ch \in SafeChars)
          IN  /\ files' = files
              /\ ret'.value.found \in BOOLEAN
              /\ (name = <<>> \/ name \notin DOMAIN files \/ "messages" \notin DOMAIN files[name]) =>
                   ret'.value = [found |-> FALSE]]_vars

\* C19 witness: load_topic has returned None for the file that does not
\* parse, and the file is still there.
C19_Witness ==
    /\ ret.op = "load"
    /\ ret.arg = LeftoverId
    /\ ~ret.value.found
    /\ LeftoverId \in DOMAIN files
    /\ files[LeftoverId] = Malformed

\* C20: list_topics changes no file and returns one TopicInfo for each file
\* that holds a topic, with the topic's id and name, ordered by the lower-cased
\* name; the files that do not parse are left out.
C20_ListSortedLoadable ==
    [][ret'.op = "list" =>
          LET infos == ret'.value
              topics == {f \in DOMAIN files : "messages" \in DOMAIN files[f]}
          IN  /\ files' = files
              /\ Len(infos) = Cardinality(topics)
              /\ {infos[i].id : i \in 1..Len(infos)} = {files[f].id : f \in topics}
              /\ \A i \in 1..Len(infos) :
                   \E f \in topics : infos[i].id = files[f].id /\ infos[i].name = files[f].name
              /\ \A i, j \in 1..Len(infos) :
                   i < j => ~TextLess(Lower(infos[j].name), Lower(infos[i].name))]_vars

\* C20 witness: list_topics has returned the topic named "a" before the topic
\* named "B", leaving out the file that does not parse.
C20_Witness ==
    /\ ret.op = "list"
    /\ Len(ret.value) = 2
    /\ ret.value[1].name = <<"a">>
    /\ ret.value[2].name = <<"B">>
    /\ LeftoverId \in DOMAIN files
    /\ files[LeftoverId] = Malformed

\* ------------------------------------------------------------- C21, C22

\* The messages of one role, in order.
OfRole(messages, role) == SelectSeq(messages, LAMBDA m : m.role = role)

\* The content a preview is taken from, as a sequence of no or one text:
\* the first user message's when it is not empty, else the first assistant
\* message's when it is not empty.
PreviewOrigin(messages) ==
    LET users == OfRole(messages, "user")
        assistants == OfRole(messages, "assistant")
    IN  IF users # <<>> /\ users[1].content # <<>> THEN <<users[1].content>>
        ELSE IF assistants # <<>> /\ assistants[1].content # <<>> THEN <<assistants[1].content>>
        ELSE <<>>

\* A text cut to its first PREVIEW_LEN characters plus "...", or left whole.
Cut(text) ==
    IF Len(text) > PREVIEW_LEN
    THEN SubSeq(text, 1, PREVIEW_LEN) \o <<".", ".", ".">>
    ELSE text

\* C21: in every listing, a preview taken from a message content longer
\* than 50 characters is that content's first 50 characters followed by an
\* ellipsis; a preview taken from a content of at most 50 characters is
\* the content itself, with no ellipsis.
C21_PreviewTruncation ==
    ret.op = "list" =>
        \A i \in DOMAIN ret.value :
            LET info == ret.value[i]
                origin == PreviewOrigin(files[info.id].messages)
            IN  origin # <<>> =>
                    /\ Len(origin[1]) > PREVIEW_LEN =>
                           /\ Len(info.preview) = PREVIEW_LEN + 3
                           /\ SubSeq(info.preview, 1, PREVIEW_LEN) = SubSeq(origin[1], 1, PREVIEW_LEN)
                           /\ SubSeq(info.preview, PREVIEW_LEN + 1, PREVIEW_LEN + 3) = <<".", ".", ".">>
                    /\ Len(origin[1]) <= PREVIEW_LEN => info.preview = origin[1]

\* A listing whose preview was cut from a 51-character user message.
C21_Witness ==
    /\ ret.op = "list"
    /\ \E i \in DOMAIN ret.value :
           LET messages == files[ret.value[i].id].messages
           IN  /\ messages # <<>>
               /\ messages[1] = Message("user", LongText)
               /\ Len(ret.value[i].preview) = PREVIEW_LEN + 3

Persisted(fs, topic_id) ==
    IF TopicExists(fs, topic_id) THEN Found(load_topic(fs, topic_id)) ELSE Absent

\* The id the storage call of this step wrote under.
WrittenId ==
    CASE ret'.op = "create" -> ret'.value.id
      [] ret'.op = "append" -> ret'.arg[1]
      [] ret'.op = "delete" -> ret'.arg

\* C23: a save (of a new topic), an append or a delete under one id the
\* store accepts leaves the persisted topic of every other id the store
\* accepts (and holds a topic for) unchanged.
C23_OtherIdsUntouched ==
    [][ret'.op \in {"create", "append", "delete"} =>
           \A other \in RawIds :
               (/\ other # WrittenId
                /\ Sanitize(WrittenId) # <<>>
                /\ TopicExists(files, other))
               => Persisted(files', other) = Persisted(files, other)]_vars

\* ------------------------------------------------------------------ C24

\* The message requests that appended their user message to topic t.
PostedTo(t) == {s \in Streams : spc[s] \notin {"idle", "rejected"} /\ stopic[s] = t}

RECURSIVE SavedCount(_, _)
\* How many assistant messages the requests in S have appended to topic t.
SavedCount(S, t) ==
    IF S = {} THEN 0
    ELSE LET s == CHOOSE x \in S : TRUE
         IN  (IF s \in PostedTo(t) THEN Len(saved[s]) ELSE 0) + SavedCount(S \ {s}, t)

C25_FailureSurfaced ==
    \A g \in Ingests :
        gres[g] = "RuntimeError" => IngestResponse(gpc[g]) # "accepted"

\* ------------------------------------------------------------------ C26

\* list_topics is called while the one topic on file has no messages.
ListsNewTopic ==
    /\ ret' # ret
    /\ ret'.op = "list"
    /\ \E t \in TopicIds : DOMAIN files = {t} /\ TopicExists(files, t) /\ files[t].messages = <<>>

\* load_topic(t) is called after request s, the only one that posted to t,
\* has run to its end event without an error.
LoadsAfterStream(s, t) ==
    /\ ret' # ret
    /\ ret'.op = "load"
    /\ ret'.arg = t
    /\ PostedTo(t) = {s}
    /\ spc[s] = "done"
    /\ ~TookErrorPath(s)

\* C26: with the engine uninitialized, a listing made after a topic was
\* created has one entry whose preview is "New Topic"; once one user
\* message was posted and its stream has completed, the assistant's reply
\* is the fixed not-ready text and load_topic gives exactly the two
\* messages [user, assistant].
C26_Scenario ==
    [][/\ ListsNewTopic =>
              /\ Len(ret'.value) = 1
              /\ ret'.value[1].preview = <<"N", "e", "w">>
       /\ \A s \in Streams, t \in TopicIds :
              LoadsAfterStream(s, t) =>
                  /\ reply[s] = NotReadyMsg
                  /\ ret'.value.found
                  /\ ret'.value.topic.messages =
                         <<Message("user", <<"q">>), Message("assistant", NotReadyMsg)>>]_vars

\* The scenario ran to its end: the topic was loaded after the stream
\* completed and holds the question and the not-ready reply.
C26_Witness ==
    /\ ret.op = "load"
    /\ ret.value.found
    /\ Len(ret.value.topic.messages) = 2
    /\ ret.value.topic.messages[2] = Message("assistant", NotReadyMsg)
    /\ \E s \in Streams : spc[s] = "done" /\ ~TookErrorPath(s) /\ PostedTo(ret.arg) = {s}

\* ------------------------------------------------------------------ C27

\* C27: add_message_to_topic on an id that names no topic returns None and
\* leaves every file as it was: nothing is appended and no file is created.
C27_AppendToMissing ==
    [][(/\ ret' # ret
        /\ ret'.op = "append"
        /\ ~TopicExists(files, ret'.arg[1]))
       => /\ ret'.value = Absent
          /\ files' = files
          /\ DOMAIN files' = DOMAIN files]_vars

\* An append under an id that was never created (and that the store
\* accepts) returned None, and no file of that name is there.
C27_Witness ==
    /\ ret.op = "append"
    /\ ret.value = Absent
    /\ Sanitize(ret.arg[1]) # <<>>
    /\ Sanitize(ret.arg[1]) \notin minted
    /\ Sanitize(ret.arg[1]) \notin DOMAIN files

\* ------------------------------------------------------------------ C28

\* The topics on file: what list_topics counts.
TopicCount(fs) == Cardinality({f \in DOMAIN fs : IsTopic(fs[f])})

\* C28: create_new_topic without a name returns a topic whose id is on no
\* file and was never handed out, whose name is "Topic {n+1}" for the n
\* topics on file at the call, and whose messages are empty; the topic is
\* then on file under its id and every other file is as it was.
C28_DefaultNamedTopic ==
    [][(ret' # ret /\ ret'.op = "create" /\ ret'.arg = <<>>) =>
           LET topic == ret'.value
           IN  /\ topic.id \notin DOMAIN files
               /\ topic.id \notin minted
               /\ topic.name = <<"T", <<"1", "2", "3">>[TopicCount(files) + 1]>>
               /\ topic.messages = <<>>
               /\ DOMAIN files' = DOMAIN files \cup {topic.id}
               /\ files'[topic.id] = topic
               /\ \A f \in DOMAIN files : files'[f] = files[f]]_vars

\* A topic created without a name after the topic before it was deleted: it
\* is numbered by the topics on file (none), not by the ids handed out.
C28_Witness ==
    /\ ret.op = "create"
    /\ ret.arg = <<>>
    /\ ret.value.name = <<"T", "1">>
    /\ minted \ DOMAIN files # {}
    /\ ret.value.id \in DOMAIN files
    /\ files[ret.value.id] = ret.value

\* ------------------------------------------------------------------ C29

\* C29: a call of initialize_rag holds the lock only between taking it and
\* its exit, every call that has started returns, whether it built the
\* engine, returned at a failed check or went through an except clause,
\* and so does every call that waits for the lock; once the calls have
\* returned the lock is free for a later call.
C29_CallsEndLockReleased ==
    /\ [](\A c \in Callers : lock = c => ipc[c] \in CriticalPcs)
    /\ [](AllCallsReturned => lock = None)
    /\ \A c \in Callers : (ipc[c] = "acquire") ~> (ipc[c] = "done" /\ lock # c)
    /\ \A c \in Callers : (ipc[c] \in CriticalPcs) ~> (ipc[c] = "done" /\ lock # c)

\* A call left through an except clause, another returned at a failed
\* check, and a later call holds the lock.
C29_Witness ==
    \E a, b, c \in Callers :
        /\ outcome[a] = "raised"
        /\ outcome[b] = "aborted"
        /\ lock = c
        /\ ipc[c] \in CriticalPcs

\* ------------------------------------------------------------------ C30

\* The requests on topic t that are past the point where they save the
\* assistant's message.
PastSave(t) == {s \in PostedTo(t) : spc[s] \in {"errend", "done"}}

\* C30: a request that has sent its end event on a topic that is still on
\* file has appended exactly one assistant message to it, the answer it
\* streamed or, when it went through the exception handler, the fixed error
\* message; the topic holds one assistant message per such request.
C30_OneAssistantMessagePerStream ==
    \A t \in TopicIds :
        TopicExists(files, t) =>
            /\ \A s \in PostedTo(t) :
                   spc[s] = "done" =>
                       /\ Len(saved[s]) = 1
                       /\ saved[s][1] = IF TookErrorPath(s) THEN StreamErrorMsg ELSE reply[s]
                       /\ Contains(files[t].messages, Message("assistant", saved[s][1]))
            /\ Len(OfRole(files[t].messages, "assistant")) = Cardinality(PastSave(t))

\* Two requests ended on one topic, one with its answer and one through
\* the exception handler; the topic holds the two assistant messages.
C30_Witness ==
    \E t \in TopicIds, a, b \in Streams :
        /\ TopicExists(files, t)
        /\ PostedTo(t) = {a, b}
        /\ spc[a] = "done" /\ ~TookErrorPath(a) /\ saved[a] = <<reply[a]>>
        /\ spc[b] = "done" /\ TookErrorPath(b) /\ saved[b] = <<StreamErrorMsg>>
        /\ Len(OfRole(files[t].messages, "assistant")) = 2

\* ------------------------------------------------------------------ C31

\* Topic t was created and its file has been removed.
Deleted(t) == t \in minted /\ ~FileExists(files, t)

\* C31: once a topic has been deleted no step puts its file back, in
\* particular not the save of a request that was in flight on it: that save
\* writes nothing, load_topic of the id stays None, and the request ends
\* with an end event whose history is empty.
C31_DeletedStaysDeleted ==
    [][\A t \in TopicIds :
          Deleted(t) =>
              /\ ~FileExists(files', t)
              /\ ~TopicExists(files', t)
              /\ \A s \in PostedTo(t) :
                     (spc[s] \in {"chunks", "errend"} /\ spc'[s] \in {"errend", "done"}) =>
                         /\ saved'[s] = saved[s]
                         /\ files' = files
                         /\ spc'[s] = "done" =>
                                Last(events'[s]) = [type |-> "end", topicId |-> t, history |-> <<>>]]_vars

\* A request streamed its whole answer, the topic was deleted under it, and
\* it ended on the success path with nothing saved and an empty history.
C31_Witness ==
    \E s \in Streams, t \in TopicIds :
        /\ s \in PostedTo(t)
        /\ Deleted(t)
        /\ spc[s] = "done"
        /\ ~TookErrorPath(s)
        /\ reply[s] # <<>>
        /\ Len(OfType(events[s], "chunk")) = Len(reply[s])
        /\ saved[s] = <<>>
        /\ Last(events[s]) = [type |-> "end", topicId |-> t, history |-> <<>>]

\* ------------------------------------------------------------------ C32

\* Request s awaits the search of an engine object that an ingestion task
\* has dropped since.
AwaitsDropped(s) ==
    /\ spc[s] = "search"
    /\ engine_used[s] # None
    /\ engine_used[s] \in invalidated

\* C32: when the ingestion task resets the state while a query awaits its
\* search, the flag is false and the handle gone at once, and the query
\* stays on the engine object it called; when that search ends the query
\* returns what this engine's search ended in (its text, the no-answer text
\* for an empty result, the error text naming the exception the search
\* raised), never the not-ready text and never the error of a call on None.
C32_SuspendedQueryKeepsEngine ==
    [][\A s \in Streams :
          /\ \A g \in Ingests :
                 (spc[s] = "search" /\ gpc[g] = "scheduled" /\ gpc'[g] = "running") =>
                     /\ ~initialized'
                     /\ search_engine' = None
                     /\ engine_used[s] \in invalidated'
                     /\ spc'[s] = "search"
                     /\ engine_used'[s] = engine_used[s]
          /\ (AwaitsDropped(s) /\ spc'[s] # "search") =>
                 LET result == search_result'[s]
                 IN  /\ spc'[s] = "chunks"
                     /\ engine_used'[s] = engine_used[s]
                     /\ result \in SearchResults
                     /\ reply'[s] =
                            IF result.kind = "raise" THEN <<"Q", "F", result.error>>
                            ELSE IF result.kind = "text" /\ result.text # <<>> THEN result.text
                            ELSE NoAnswerMsg
                     /\ reply'[s] # NotReadyMsg
                     /\ reply'[s] # <<"Q", "F", "AttributeError">>
                     /\ initialized' = initialized
                     /\ search_engine' = search_engine]_vars

\* A query is suspended in the search of the engine it called while the
\* state has been reset: the flag is false and the shared handle is gone.
C32_Witness ==
    \E s \in Streams :
        /\ AwaitsDropped(s)
        /\ ~initialized
        /\ search_engine = None
        /\ \E g \in Ingests : gpc[g] = "running" /\ engine_at_trigger[g] = engine_used[s]

====
